---- MODULE Spec2Model ----
(***************************************************************************)
(* The morphing-animation scheduler of the SHAPES site: the useAnimations  *)
(* hook (src/src/worker.js, lines 182-426) over the sequence store of      *)
(* src/src/data/fileContent.js.                                            *)
(*                                                                         *)
(* The hook is a React function component hook.  Its state lives in three  *)
(* places, all modelled here:                                              *)
(*   - useState cells: the values of the last committed render             *)
(*     (isAnimating, currentSequence, currentFrame, animationSpeed,        *)
(*     performanceMetrics) and the updates queued by setState calls that   *)
(*     the next render will commit (pending);                              *)
(*   - useRef cells, written at once by the handlers (the ...Ref           *)
(*     variables);                                                         *)
(*   - the host: the requestAnimationFrame callbacks outstanding, each     *)
(*     with the values its closure captured (rafQueue), and the time of    *)
(*     the last callback (now).                                            *)
(* Handlers run to completion (one JavaScript task each); a render, with   *)
(* the effects it triggers, is a task of its own.                          *)
(*                                                                         *)
(* Specifications:                                                         *)
(*   Spec          the hook on a host with requestAnimationFrame;          *)
(*   SpecNoRAF     the hook on a host without it;                          *)
(*   SpecDisplay   the hook as the MorphingDisplay component drives it     *)
(*                 (src/unnamed/part_007);                                 *)
(*   SpecLookup    getMorphSequence called directly on the shipped store;  *)
(*   SpecTwoRuns   MorphingDisplay's sequence-switching interval           *)
(*                 (src/unnamed/part_007), two runs side by side;          *)
(*   SpecThrottle  throttle of src/src/utils/performance.js;               *)
(*   SpecDebounce  debounce of the same file;                              *)
(*   SpecHover     the useHoverAnimation hook (src/src/worker.js);         *)
(*   SpecForm      the ContactForm component (src/unnamed/part_011);       *)
(*   SpecEdge      the edge worker (src/src/worker.js, lines 1-181).       *)
(* Each one leaves the variables of the others at their initial values.    *)
(***************************************************************************)
EXTENDS Integers, Sequences, FiniteSets, TLC

(***************************************************************************)
(* Bounds of the model.                                                    *)
(***************************************************************************)
\* the host clock stops handing out callbacks after this time (ms)
MaxTime == 40
\* most handler calls and callbacks that run before the render of their
\* updates
MaxBatch == 2
\* an index past the end of every sequence, tried by jumpToFrame
MaxJump == 4

(***************************************************************************)
(* Program constants.                                                      *)
(***************************************************************************)
\* useState(1000): the interval before any start()
InitialSpeed == 1000
\* frameTime > 20 counts a dropped frame
DroppedFrameThreshold == 20
\* the rolling window keeps the last 60 frame times
WindowSize == 60
\* MorphingDisplay starts every sequence with 2 second intervals
DisplaySpeed == 2000
\* MorphingDisplay switches sequences only above 30 fps
GoodFps == 30
\* Math.random() < 0.3, in tenths
SwitchChance == 3

(***************************************************************************)
(* Inputs.                                                                 *)
(***************************************************************************)
\* gaps between two callbacks of the host, in ms
Gaps == {15, 25}
\* intervals passed to startMorphing (it does not validate them)
Speeds == {0, 40}
\* intervals passed to changeSpeed
NewSpeeds == {0 - 20, 0, 20}
\* names passed to startMorphing; "unknown" is not registered
Names == {"identity", "loading", "concepts", "unknown"}
\* indices passed to jumpToFrame
JumpIndices == {0 - 1, 2, MaxJump}
\* names passed to getMorphSequence by a caller other than the hook: the
\* names above and two names that every object literal inherits
LookupNames == Names \cup {"toString", "constructor"}
\* most calls of getMorphSequence in a run of its caller
MaxLookups == 3
\* most firings of MorphingDisplay's sequence-switching interval in a run
MaxIntervals == 2
\* the fps a run may measure: no sample yet, below the display's threshold,
\* above it
FpsValues == {0, 25, 60}
\* Math.random() in tenths, on both sides of the 30% chance
Rolls == {2, 3}
\* the clock of the throttled function's host stops after this time
MaxClock == 7
\* most calls of the throttled function in a run
MaxCalls == 3
\* the limit passed to throttle, in ticks of the clock
Limits == {3}
\* the delay passed to debounce, in ticks of the clock
Delays == {2, 3}
\* the delay passed to useHoverAnimation, in ticks of the clock
HoverDelays == {2, 3}
\* most handleMouseLeave events with no handleMouseEnter between them
MaxLeaves == 3
\* most re-runs of MorphingDisplay's mount effect followed in a run
MaxReruns == 4
\* most requests the edge worker handles in a run
MaxRequests == 2
\* the requests that reach the edge worker: method, path and whether the
\* URL carries the nocache parameter
Methods == {"GET", "HEAD", "POST"}
Paths == {"/", "/static/app.js"}
\* the status of the origin's response
Statuses == {200, 404, 500}
\* the fields of the contact form
Fields == {"name", "email", "interest", "message"}
\* texts typed into the contact form: nothing, a blank, a word, and for the
\* email field an address with no dot after the @ and a complete one
\* (a text is a sequence of characters)
Empty == <<>>
Blank == <<" ">>
Word == <<"a">>
NoDotAddress == <<"a", "@", "b">>
Address == <<"a", "@", "b", ".", "c">>
FieldValues ==
  [name |-> {Empty, Blank, Word},
   email |-> {Empty, Word, NoDotAddress, Address},
   interest |-> {Empty, Word},
   message |-> {Empty, Blank, Word}]

(***************************************************************************)
(* The sequence store.                                                     *)
(***************************************************************************)
\* an array of n opaque frames
Frames(name, n) == [i \in 1..n |-> <<name, i>>]

\* the store shipped with the site: three sequences of four frames each
RealStore ==
  [identity |-> Frames("identity", 4),
   loading  |-> Frames("loading", 4),
   concepts |-> Frames("concepts", 4)]

\* a store as the hook's tests mock it: other lengths, one sequence empty
MockStore ==
  [identity |-> Frames("identity", 2),
   loading  |-> Frames("loading", 3),
   concepts |-> <<>>]

Stores == {RealStore, MockStore}

\* what a caller that expects an array sees of a value that is a function:
\* its length (the number of declared parameters) and no element
Holes(n) == [i \in 1..n |-> <<"undefined", i>>]

\* the members of Object.prototype that morphSequences, an object literal,
\* inherits: toString is a function of no parameter, constructor is Object,
\* a function of one
ObjectPrototype == [toString |-> Holes(0), constructor |-> Holes(1)]

\* an element of a registered sequence
IsFrame(f) == f[1] \in DOMAIN RealStore

VARIABLES
  morphSequences,      \* the store in use (fixed after Init)
  mounted,             \* the component using the hook is mounted
  \* useState cells, as of the last committed render
  isAnimating, currentSequence, currentFrame, animationSpeed,
  performanceMetrics,
  \* setState calls not yet rendered
  pending,
  \* useRef cells
  animationRef, lastFrameTimeRef, frameCountRef, droppedFramesRef,
  sequenceDataRef, startTimeRef, performanceStartRef, frameTimesRef,
  \* host
  rafQueue, now,
  \* history of the run (not program state)
  lastOp, lastTick, flightSpeed, advances, jumped, stoppedSince, batch,
  \* an error thrown by an effect reached React with no boundary to catch it
  uncaught,
  \* the calls of getMorphSequence made by another caller, with their results
  lookups,
  \* two runs of MorphingDisplay side by side: for each its playback state
  \* and the fps of its telemetry snapshot; the interval firings so far
  runs, intervals,
  \* a function made by throttle(func, limit, {leading, trailing}): its
  \* arguments, its closure (a timer not yet fired for lastFunc, -1 for a
  \* lastRan that is undefined), Date.now(), and the calls and runs so far
  limit, leading, trailing, inThrottle, lastFunc, lastRan, clock, calls,
  funcRuns,
  \* a function made by debounce(func, delay, immediate): its arguments and
  \* its closure (a timer not yet fired for timeoutId); it shares clock, calls
  \* and funcRuns with the throttled one, of which only one exists in a run
  delay, immediate, timeoutId, lastCallTime,
  \* useHoverAnimation(hoverDelay): its state and ref (0 for null), whether
  \* its component is mounted, the timers of the host not yet fired, and the
  \* history of the run since the last handleMouseEnter
  hoverDelay, isHovered, timeoutRef, hoverMounted, hoverTimers, hoverLog,
  \* ContactForm: its useState cells as of the last render, the simulated
  \* requests not yet completed, and the last step of the form
  formData, errors, isSubmitting, submitStatus, requests, formOp,
  \* the edge worker: the entries of caches.default and the requests it has
  \* handled, each with what the worker did for it
  edgeCache, edgeLog,
  \* MorphingDisplay: the times its mount effect has re-run since it was
  \* mounted (history of the run)
  reruns

stateVars == <<isAnimating, currentSequence, currentFrame, animationSpeed,
               performanceMetrics>>
timingRefs == <<lastFrameTimeRef, startTimeRef, performanceStartRef>>
counterRefs == <<frameCountRef, droppedFramesRef, frameTimesRef>>
vars == <<morphSequences, mounted, isAnimating, currentSequence, currentFrame,
          animationSpeed, performanceMetrics, pending, animationRef,
          lastFrameTimeRef, frameCountRef, droppedFramesRef, sequenceDataRef,
          startTimeRef, performanceStartRef, frameTimesRef, rafQueue, now,
          lastOp, lastTick, flightSpeed, advances, jumped, stoppedSince,
          batch, uncaught, lookups, runs, intervals, limit, leading,
          trailing, inThrottle, lastFunc, lastRan, clock, calls, funcRuns,
          delay, immediate, timeoutId, lastCallTime, hoverDelay, isHovered,
          timeoutRef, hoverMounted, hoverTimers, hoverLog, formData, errors,
          isSubmitting, submitStatus, requests, formOp, edgeCache, edgeLog,
          reruns>>
\* the state and refs of the hook, the host and the history of its run
hookVars == <<morphSequences, mounted, stateVars, pending, animationRef,
              timingRefs, counterRefs, sequenceDataRef, rafQueue, now,
              lastOp, lastTick, flightSpeed, advances, jumped, stoppedSince,
              batch>>
\* what the handlers and callbacks of the hook never write
throttleVars == <<limit, leading, trailing, inThrottle, lastFunc, lastRan,
                  clock, calls, funcRuns>>
debounceVars == <<delay, immediate, timeoutId, lastCallTime>>
\* the state of the other components of the site
hoverVars == <<hoverDelay, isHovered, timeoutRef, hoverMounted, hoverTimers,
               hoverLog>>
formVars == <<formData, errors, isSubmitting, submitStatus, requests, formOp>>
edgeVars == <<edgeCache, edgeLog>>
siteVars == <<debounceVars, hoverVars, formVars, edgeVars, reruns>>
\* what no step of the display writes
displayFrame == <<uncaught, lookups, runs, intervals, throttleVars,
                  debounceVars, hoverVars, formVars, edgeVars>>
auxVars == <<uncaught, lookups, runs, intervals, throttleVars, siteVars>>

(***************************************************************************)
(* Pure helpers.                                                           *)
(***************************************************************************)
\* Object.keys(morphSequences)
getSequenceNames == DOMAIN morphSequences

\* morphSequences[name] || morphSequences.identity.  The lookup finds own
\* properties and inherited ones; an array, even empty, and a function are
\* truthy.
getMorphSequence(name) ==
  IF name \in DOMAIN morphSequences THEN morphSequences[name]
  ELSE IF name \in DOMAIN ObjectPrototype THEN ObjectPrototype[name]
  ELSE morphSequences.identity

RECURSIVE Sum(_)
\* frameTimesRef.current.reduce((a, b) => a + b, 0)
Sum(s) == IF s = <<>> THEN 0 ELSE Head(s) + Sum(Tail(s))

\* Math.round(num / den) for num >= 0, den > 0
Round(num, den) == (2 * num + den) \div (2 * den)

\* no setState call is waiting for a render
NoPending ==
  [isAnimating |-> <<>>, currentSequence |-> <<>>, animationSpeed |-> <<>>,
   currentFrame |-> <<>>, updaters |-> 0, performanceMetrics |-> <<>>]

\* the value a queued update resolves to: the last queued one, else the cell
Resolve(cell, queued) == IF queued = <<>> THEN cell ELSE queued[1]

ResolvedFrame == Resolve(currentFrame, pending.currentFrame)
ResolvedIsAnimating == Resolve(isAnimating, pending.isAnimating)
ResolvedSpeed == Resolve(animationSpeed, pending.animationSpeed)
ResolvedSequence == Resolve(currentSequence, pending.currentSequence)
ResolvedMetrics == Resolve(performanceMetrics, pending.performanceMetrics)

\* requestAnimationFrame returns an id that no outstanding callback has and
\* that the ref does not hold.  Ids only matter through equality, so the
\* model hands out the least such id where a browser hands out the next one.
FreshId(queue, ref) ==
  LET used == {ref} \cup {c.id : c \in queue}
  IN  CHOOSE i \in 1..(Cardinality(used) + 1) :
        /\ i \notin used
        /\ \A j \in 1..(i - 1) : j \in used

\* cancelAnimationFrame(id)
Cancel(queue, id) == {c \in queue : c.id # id}

\* lastTick when the last step was not a callback
NoTick == [first |-> FALSE, gap |-> 0, elapsed |-> 0, speed |-> 0,
           flight |-> 0, advanced |-> FALSE, counted |-> 0, ran |-> FALSE]

\* lastOp after a start() that loaded a sequence; "startSwitch" when it was
\* called on a running scheduler that had advanced through another sequence,
\* "startFallback" when the name it was given is not registered
StartOps == {"start", "startSwitch", "startFallback"}

\* lastOp after a stop(); "stopAgain" when the scheduler had been stopped
\* and neither started nor resumed since
StopOps == {"stop", "stopAgain"}

\* the hook as useAnimations() returns it at the first render
HookInit ==
  /\ morphSequences \in Stores
  /\ mounted = TRUE
  /\ isAnimating = FALSE
  /\ currentSequence = "identity"
  /\ currentFrame = 0
  /\ animationSpeed = InitialSpeed
  /\ performanceMetrics =
       [fps |-> 0, frameTime |-> 0, droppedFrames |-> 0, totalFrames |-> 0]
  /\ pending = NoPending
  /\ animationRef = 0
  /\ lastFrameTimeRef = 0
  /\ frameCountRef = 0
  /\ droppedFramesRef = 0
  /\ sequenceDataRef = <<>>
  /\ startTimeRef = 0
  /\ performanceStartRef = 0
  /\ frameTimesRef = <<>>
  /\ rafQueue = {}
  /\ now = 0
  /\ lastOp = "init"
  /\ lastTick = NoTick
  /\ flightSpeed = 0
  /\ advances = 0
  /\ jumped = FALSE
  /\ stoppedSince = FALSE
  /\ batch = 0
  /\ uncaught = FALSE

\* no call of getMorphSequence from outside the hook
NoLookups == lookups = <<>>

\* no display under comparison
NoRuns == runs = <<>> /\ intervals = 0

\* no throttled function
NoThrottle ==
  /\ limit = 0
  /\ leading = FALSE
  /\ trailing = FALSE
  /\ inThrottle = FALSE
  /\ lastFunc = <<>>
  /\ lastRan = 0
  /\ clock = 0
  /\ calls = <<>>
  /\ funcRuns = <<>>

\* no debounced function
NoDebounce ==
  /\ delay = 0
  /\ immediate = FALSE
  /\ timeoutId = <<>>
  /\ lastCallTime = 0

\* hoverLog before any event: no handleMouseEnter yet, no handleMouseLeave
\* since, isHovered not set to false since
NoHoverLog == [entered |-> FALSE, leaves |-> <<>>, unhoveredAt |-> 0 - 1]

\* no component uses useHoverAnimation
NoHover ==
  /\ hoverDelay = 0
  /\ isHovered = FALSE
  /\ timeoutRef = 0
  /\ hoverMounted = FALSE
  /\ hoverTimers = {}
  /\ hoverLog = NoHoverLog

\* useState({name: '', email: '', interest: '', message: ''})
EmptyForm ==
  [name |-> Empty, email |-> Empty, interest |-> Empty, message |-> Empty]

\* useState({})
NoErrors == [field \in {} |-> ""]

\* the ContactForm as it is first rendered
NoForm ==
  /\ formData = EmptyForm
  /\ errors = NoErrors
  /\ isSubmitting = FALSE
  /\ submitStatus = "null"
  /\ requests = 0
  /\ formOp = "init"

\* the edge worker has handled no request and its cache is empty
NoEdge == edgeCache = {} /\ edgeLog = <<>>

\* no MorphingDisplay has re-run its mount effect
NoDisplay == reruns = 0

\* none of the other components is in use
NoSite == NoDebounce /\ NoHover /\ NoForm /\ NoEdge /\ NoDisplay

Init == HookInit /\ NoLookups /\ NoRuns /\ NoThrottle /\ NoSite

\* a handler or callback runs: one more task whose updates await a render
Batched ==
  /\ batch < MaxBatch
  /\ batch' = batch + 1

(***************************************************************************)
(* updatePerformanceMetrics(currentTime): the refs and the snapshot it     *)
(* produces, given the refs it reads.                                      *)
(***************************************************************************)
\* frameTimesRef after push and, past 60 entries, shift
PushFrameTime(times, frameTime) ==
  LET pushed == Append(times, frameTime)
  IN  IF Len(pushed) > WindowSize THEN Tail(pushed) ELSE pushed

\* droppedFramesRef after the frameTime > 20 test
\* (variant: an on-time frame takes one off the count)
CountDroppedRecovering(dropped, frameTime) ==
  IF frameTime > DroppedFrameThreshold THEN dropped + 1 ELSE dropped - 1
CountDropped(dropped, frameTime) ==
  IF frameTime > DroppedFrameThreshold THEN dropped + 1 ELSE dropped

\* the object handed to setPerformanceMetrics
MetricsSnapshot(times, dropped, frameCount) ==
  LET total == Sum(times)
      n == Len(times)
  IN  [fps |-> IF total > 0 THEN Round(1000 * n, total) ELSE 0,
       frameTime |-> Round(total, n),
       droppedFrames |-> dropped,
       totalFrames |-> frameCount]

(***************************************************************************)
(* animationLoop(currentTime): one callback of requestAnimationFrame.  c   *)
(* is the outstanding callback that fires, with the isAnimating and        *)
(* animationSpeed its closure captured; gap is the time since the host's   *)
(* previous callback.  The host runs a callback at the start of a frame,   *)
(* after React has rendered the updates of the tasks before it.            *)
(***************************************************************************)
\* the updater handed to setCurrentFrame: (prevFrame + 1) % sequence.length
\* (variant: no modulo)
NextFrameNoWrap(prevFrame, length) == prevFrame + 1
NextFrame(prevFrame, length) == (prevFrame + 1) % length

\* elapsed >= animationSpeed
ShouldAdvanceFrame(elapsed, speed) == elapsed >= speed

animationLoopBody(c, gap) ==
  LET currentTime == now + gap
      first == performanceStartRef = 0
      lastFrameTime == IF first THEN currentTime ELSE lastFrameTimeRef
      startTime == IF first THEN currentTime ELSE startTimeRef
      shouldAdvanceFrame ==
        ShouldAdvanceFrame(currentTime - startTime, c.animationSpeed)
      frameTime == currentTime - lastFrameTime
      times == PushFrameTime(frameTimesRef, frameTime)
      dropped == CountDropped(droppedFramesRef, frameTime)
      advance == shouldAdvanceFrame /\ Len(sequenceDataRef) > 0
      afterFire == rafQueue \ {c}
      id == FreshId(afterFire, animationRef)
  IN  /\ c \in rafQueue
      /\ currentTime <= MaxTime
      /\ now' = currentTime
      /\ performanceStartRef' =
           IF first THEN currentTime ELSE performanceStartRef
      /\ IF shouldAdvanceFrame
           THEN /\ frameTimesRef' = times
                /\ droppedFramesRef' = dropped
                /\ pending' =
                     [pending EXCEPT
                        !.performanceMetrics =
                           <<MetricsSnapshot(times, dropped, frameCountRef)>>,
                        !.currentFrame =
                           IF advance
                             THEN <<NextFrame(ResolvedFrame,
                                              Len(sequenceDataRef))>>
                             ELSE @,
                        !.updaters = IF advance THEN @ + 1 ELSE @]
                /\ startTimeRef' = currentTime
           ELSE /\ UNCHANGED <<frameTimesRef, droppedFramesRef, pending>>
                /\ startTimeRef' = startTime
      /\ lastFrameTimeRef' = currentTime
      /\ IF c.isAnimating
           THEN /\ rafQueue' =
                     afterFire \cup
                       {[id |-> id, isAnimating |-> c.isAnimating,
                         animationSpeed |-> c.animationSpeed]}
                /\ animationRef' = id
           ELSE /\ rafQueue' = afterFire
                /\ UNCHANGED animationRef
      /\ lastOp' = IF advance THEN "tickAdvance" ELSE "tick"
      /\ lastTick' =
           [first |-> first, gap |-> gap, elapsed |-> currentTime - startTime,
            speed |-> c.animationSpeed,
            flight |-> IF first THEN c.animationSpeed ELSE flightSpeed,
            advanced |-> advance,
            counted |-> droppedFramesRef' - droppedFramesRef, ran |-> TRUE]
      /\ flightSpeed' =
           IF first \/ shouldAdvanceFrame THEN c.animationSpeed
           ELSE flightSpeed
      /\ advances' = IF advance THEN advances + 1 ELSE advances
      /\ UNCHANGED <<morphSequences, mounted, stateVars, frameCountRef,
                     sequenceDataRef, jumped, stoppedSince>>

\* a callback of the hook used on its own: the updates of the tasks before
\* it are rendered when it fires
animationLoop(c, gap) == pending = NoPending /\ animationLoopBody(c, gap)

(***************************************************************************)
(* startMorphing(sequenceName, speed), called through the closure of the   *)
(* last committed render (it reads that render's isAnimating).             *)
(***************************************************************************)
\* the name after the includes() test
\* (variant: the name is used as given)
ValidatedNameAsGiven(sequenceName) == sequenceName
ValidatedName(sequenceName) ==
  IF sequenceName \in getSequenceNames THEN sequenceName ELSE "identity"

\* setCurrentFrame(0)
\* (variant: the index is not reset)
StartFrameKeep(queued) == queued
StartFrame(queued) == <<0>>

\* "Start animation if not already running": the update of isAnimating
StartIsAnimating(queued, closureIsAnimating) ==
  IF ~closureIsAnimating THEN <<TRUE>> ELSE queued

\* !sequence || sequence.length === 0
\* (variant: the test is left out)
SequenceEmptyNever(sequence) == FALSE
SequenceEmpty(sequence) == Len(sequence) = 0

\* the queue of updates after the four setState calls of a start()
StartPending(name, speed) ==
  [pending EXCEPT
     !.currentSequence = <<name>>,
     !.animationSpeed = <<speed>>,
     !.currentFrame = StartFrame(@),
     !.isAnimating = StartIsAnimating(@, isAnimating)]

startMorphing(sequenceName, speed) ==
  LET name == ValidatedName(sequenceName)
      sequence == getMorphSequence(name)
  IN  /\ mounted
      /\ IF SequenceEmpty(sequence)
           THEN /\ lastOp' = "startRejected"
                /\ UNCHANGED <<pending, sequenceDataRef, counterRefs,
                               performanceStartRef, flightSpeed, advances,
                               jumped, stoppedSince>>
           ELSE /\ pending' = StartPending(name, speed)
                /\ sequenceDataRef' = sequence
                /\ frameCountRef' = 0
                /\ droppedFramesRef' = 0
                /\ frameTimesRef' = <<>>
                /\ performanceStartRef' = 0
                /\ lastOp' =
                     IF sequenceName \notin getSequenceNames
                       THEN "startFallback"
                     ELSE IF /\ ResolvedIsAnimating
                        /\ advances > 0
                        /\ name # ResolvedSequence
                       THEN "startSwitch"
                       ELSE "start"
                /\ flightSpeed' = 0
                /\ advances' = 0
                /\ jumped' = FALSE
                /\ stoppedSince' = FALSE
      /\ lastTick' = NoTick
      /\ UNCHANGED <<morphSequences, mounted, stateVars, animationRef,
                     lastFrameTimeRef, startTimeRef, rafQueue, now>>

(***************************************************************************)
(* stopMorphing(): what it does to the queue of updates, the host and the  *)
(* refs.  Used by the stop operation, by toggleAnimation and on unmount.   *)
(***************************************************************************)
\* the callbacks outstanding after "if (animationRef.current) cancel..."
CancelPending(queue, ref) == IF ref # 0 THEN Cancel(queue, ref) ELSE queue

\* stopMorphing's "Cancel animation frame"
\* (variant: the callback is left outstanding)
StopCancelNothing(queue, ref) == queue
StopCancel(queue, ref) == CancelPending(queue, ref)

\* setIsAnimating(false)
\* (variant: the flag is flipped)
StopIsAnimatingFlip(resolved) == <<~resolved>>
StopIsAnimating(resolved) == <<FALSE>>

\* "Reset timing refs": lastFrameTimeRef, startTimeRef, performanceStartRef
\* (variant: the refs are left as they are)
StopTimingRefsKept(refs) == refs
StopTimingRefs(refs) == <<0, 0, 0>>

stopMorphingBody ==
  /\ pending' =
       [pending EXCEPT !.isAnimating = StopIsAnimating(ResolvedIsAnimating)]
  /\ rafQueue' = StopCancel(rafQueue, animationRef)
  /\ animationRef' = 0
  /\ flightSpeed' = 0
  /\ lastTick' = NoTick
  /\ lastFrameTimeRef' = StopTimingRefs(timingRefs)[1]
  /\ startTimeRef' = StopTimingRefs(timingRefs)[2]
  /\ performanceStartRef' = StopTimingRefs(timingRefs)[3]

stopMorphing ==
  /\ mounted
  /\ stopMorphingBody
  /\ lastOp' = IF stoppedSince THEN "stopAgain" ELSE "stop"
  /\ stoppedSince' = TRUE
  /\ UNCHANGED <<morphSequences, mounted, stateVars, counterRefs,
                 sequenceDataRef, now, advances, jumped>>

(***************************************************************************)
(* toggleAnimation(), through the closure of the last committed render.    *)
(***************************************************************************)
toggleAnimation ==
  /\ mounted
  /\ IF isAnimating
       THEN /\ stopMorphingBody
            /\ lastOp' = "toggleStop"
            /\ stoppedSince' = TRUE
       ELSE IF Len(sequenceDataRef) > 0
         THEN /\ pending' = [pending EXCEPT !.isAnimating = <<TRUE>>]
              /\ lastOp' = "toggleResume"
              /\ stoppedSince' = FALSE
              /\ lastTick' = NoTick
              /\ UNCHANGED <<rafQueue, animationRef, timingRefs, flightSpeed>>
         ELSE /\ lastOp' = "toggleNoop"
              /\ lastTick' = NoTick
              /\ UNCHANGED <<pending, rafQueue, animationRef, timingRefs,
                             flightSpeed, stoppedSince>>
  /\ UNCHANGED <<morphSequences, mounted, stateVars, counterRefs,
                 sequenceDataRef, now, advances, jumped>>

(***************************************************************************)
(* changeSpeed(newSpeed)                                                   *)
(***************************************************************************)
\* newSpeed > 0
\* (variant: >= in place of >)
SpeedAcceptedFromZero(newSpeed) == newSpeed >= 0
SpeedAccepted(newSpeed) == newSpeed > 0

changeSpeed(newSpeed) ==
  /\ mounted
  /\ IF SpeedAccepted(newSpeed)
       THEN /\ pending' = [pending EXCEPT !.animationSpeed = <<newSpeed>>]
            /\ lastOp' = "changeSpeed"
       ELSE /\ lastOp' = "changeSpeedRejected"
            /\ UNCHANGED pending
  /\ lastTick' = NoTick
  /\ UNCHANGED <<morphSequences, mounted, stateVars, animationRef, timingRefs,
                 counterRefs, sequenceDataRef, rafQueue, now, flightSpeed,
                 advances, jumped, stoppedSince>>

(***************************************************************************)
(* jumpToFrame(frameIndex)                                                 *)
(***************************************************************************)
\* frameIndex >= 0 && frameIndex < sequence.length
\* (variant: <= in place of <)
JumpInRangeInclusive(frameIndex, length) ==
  frameIndex >= 0 /\ frameIndex <= length
JumpInRange(frameIndex, length) == frameIndex >= 0 /\ frameIndex < length

\* setCurrentFrame(frameIndex)
\* (variant: the index is taken as 1-based)
JumpFrameOneBased(frameIndex) == <<frameIndex - 1>>
JumpFrame(frameIndex) == <<frameIndex>>

jumpToFrame(frameIndex) ==
  /\ mounted
  /\ IF JumpInRange(frameIndex, Len(sequenceDataRef))
       THEN /\ pending' =
                 [pending EXCEPT !.currentFrame = JumpFrame(frameIndex)]
            /\ lastOp' = "jump"
            /\ jumped' = TRUE
       ELSE /\ lastOp' = "jumpRejected"
            /\ UNCHANGED <<pending, jumped>>
  /\ lastTick' = NoTick
  /\ UNCHANGED <<morphSequences, mounted, stateVars, animationRef, timingRefs,
                 counterRefs, sequenceDataRef, rafQueue, now, flightSpeed,
                 advances, stoppedSince>>

(***************************************************************************)
(* A render commits the queued updates, runs the frame updaters (each      *)
(* increments frameCountRef), and re-runs the animation-loop effect when   *)
(* its dependencies [isAnimating, animationLoop] changed; animationLoop is *)
(* a new function when isAnimating or animationSpeed changed.              *)
(***************************************************************************)
\* the effect's dependencies differ from those of the previous render
\* (variant: animationLoop left out of the dependencies)
EffectDepsChangedFlagOnly(newIsAnimating, newSpeed) ==
  newIsAnimating # isAnimating
EffectDepsChanged(newIsAnimating, newSpeed) ==
  newIsAnimating # isAnimating \/ newSpeed # animationSpeed

\* the effect body's guard
EffectSchedules(newIsAnimating) ==
  newIsAnimating /\ Len(sequenceDataRef) > 0

\* the effect's cleanup: "if (animationRef.current) cancelAnimationFrame..."
\* (variant: the effect has no cleanup)
EffectCleanupNothing(queue, ref) == queue
EffectCleanup(queue, ref) == CancelPending(queue, ref)

\* the commit of a render: the cells take the queued values
Commit ==
  /\ mounted
  /\ pending # NoPending
  /\ isAnimating' = ResolvedIsAnimating
  /\ animationSpeed' = ResolvedSpeed
  /\ currentSequence' = ResolvedSequence
  /\ currentFrame' = ResolvedFrame
  /\ performanceMetrics' = ResolvedMetrics
  /\ frameCountRef' = frameCountRef + pending.updaters
  /\ pending' = NoPending
  /\ lastTick' = NoTick
  /\ batch' = 0
  /\ UNCHANGED <<morphSequences, timingRefs, droppedFramesRef,
                 frameTimesRef, sequenceDataRef, now, flightSpeed,
                 advances, jumped, stoppedSince>>

Render ==
  LET newIsAnimating == ResolvedIsAnimating
      newSpeed == ResolvedSpeed
      cleaned == EffectCleanup(rafQueue, animationRef)
      id == FreshId(cleaned, animationRef)
  IN  /\ Commit
      /\ IF EffectDepsChanged(newIsAnimating, newSpeed)
           THEN IF EffectSchedules(newIsAnimating)
                  THEN /\ rafQueue' =
                            cleaned \cup
                              {[id |-> id, isAnimating |-> newIsAnimating,
                                animationSpeed |-> newSpeed]}
                       /\ animationRef' = id
                  ELSE /\ rafQueue' = cleaned
                       /\ UNCHANGED animationRef
           ELSE UNCHANGED <<rafQueue, animationRef>>
      /\ lastOp' = "render"
      /\ UNCHANGED <<mounted, auxVars>>

(***************************************************************************)
(* Unmount: the cleanup of the animation-loop effect, then the cleanup of  *)
(* the unmount effect, which calls stopMorphing().  It is part of a commit *)
(* of the parent, so no update of the hook is waiting.                     *)
(***************************************************************************)
Unmount ==
  /\ mounted
  /\ pending = NoPending
  /\ mounted' = FALSE
  /\ stopMorphingBody
  /\ lastOp' = "unmount"
  /\ UNCHANGED <<batch, auxVars>>
  /\ stoppedSince' = TRUE
  /\ UNCHANGED <<morphSequences, stateVars, counterRefs, sequenceDataRef, now,
                 advances, jumped>>

Start ==
  \E n \in Names, s \in Speeds :
    startMorphing(n, s) /\ Batched /\ UNCHANGED auxVars
Stop == stopMorphing /\ Batched /\ UNCHANGED auxVars
Toggle == toggleAnimation /\ Batched /\ UNCHANGED auxVars
Speed ==
  \E s \in NewSpeeds : changeSpeed(s) /\ Batched /\ UNCHANGED auxVars
Jump ==
  \E i \in JumpIndices : jumpToFrame(i) /\ Batched /\ UNCHANGED auxVars
Tick ==
  \E c \in rafQueue, g \in Gaps :
    animationLoop(c, g) /\ Batched /\ UNCHANGED auxVars

Next ==
  \/ Start
  \/ Stop
  \/ Toggle
  \/ Speed
  \/ Jump
  \/ Render
  \/ Tick
  \/ Unmount

Spec == Init /\ [][Next]_vars

(***************************************************************************)
(* The hook on a host with no requestAnimationFrame.  Nothing in the hook  *)
(* tests for it: the animation-loop effect calls it as soon as a render    *)
(* shows isAnimating with frames loaded, and the call throws a             *)
(* ReferenceError inside the effect.  The application has no error         *)
(* boundary, so React unmounts the tree.  No callback ever exists, so      *)
(* animationRef stays null and the cleanups cancel nothing.                *)
(***************************************************************************)
RenderNoRAF ==
  /\ Commit
  /\ IF /\ EffectDepsChanged(ResolvedIsAnimating, ResolvedSpeed)
        /\ EffectSchedules(ResolvedIsAnimating)
       THEN /\ uncaught' = TRUE
            /\ mounted' = FALSE
            /\ lastOp' = "renderThrew"
       ELSE /\ lastOp' = "render"
            /\ UNCHANGED <<uncaught, mounted>>
  /\ UNCHANGED <<rafQueue, animationRef>>
  /\ UNCHANGED <<lookups, runs, intervals, throttleVars, siteVars>>

NextNoRAF ==
  \/ Start
  \/ Stop
  \/ Toggle
  \/ Speed
  \/ Jump
  \/ RenderNoRAF
  \/ Unmount

SpecNoRAF == Init /\ [][NextNoRAF]_vars

(***************************************************************************)
(* MorphingDisplay (src/unnamed/part_007) on the real hook.  Its mount      *)
(* effect lists availableSequences among its dependencies, and the hook    *)
(* returns a new array for it at every render, so the effect re-runs after *)
(* every render of the display: first the cleanup of the render before     *)
(* (clearInterval, stopMorphing()), then the body of the new render        *)
(* (startMorphing('identity', 2000), setInterval).  The updates the two    *)
(* calls queue cause the next render.  The interval of 8 seconds is        *)
(* cleared at every re-run and never lives long enough to fire.  A         *)
(* callback of the hook may fire between two renders.                      *)
(***************************************************************************)
\* the display is mounted: the hook's first render, then the effects of that
\* render, of which only the mount effect's body does anything
DisplayMount ==
  /\ lastOp = "init"
  /\ startMorphing("identity", DisplaySpeed)
  /\ UNCHANGED <<batch, reruns, displayFrame>>

\* a re-render of the display and its effects, in React's order: the
\* cleanups of the render before (animation-loop effect, mount effect), then
\* the bodies of the new render (animation-loop effect, mount effect, whose
\* startMorphing closes over the new isAnimating)
DisplayRender ==
  LET newIsAnimating == ResolvedIsAnimating
      newSpeed == ResolvedSpeed
      depsChanged == EffectDepsChanged(newIsAnimating, newSpeed)
      loopCleaned ==
        IF depsChanged THEN EffectCleanup(rafQueue, animationRef)
        ELSE rafQueue
      stopped == StopCancel(loopCleaned, animationRef)
      schedules == depsChanged /\ EffectSchedules(newIsAnimating)
      id == FreshId(stopped, 0)
      sequence == getMorphSequence(ValidatedName("identity"))
  IN  /\ mounted
      /\ lastOp # "init"
      /\ pending # NoPending
      /\ ~SequenceEmpty(sequence)
      /\ reruns < MaxReruns
      /\ reruns' = reruns + 1
      /\ isAnimating' = newIsAnimating
      /\ animationSpeed' = newSpeed
      /\ currentSequence' = ResolvedSequence
      /\ currentFrame' = ResolvedFrame
      /\ performanceMetrics' = ResolvedMetrics
      /\ rafQueue' =
           IF schedules
             THEN stopped \cup
                    {[id |-> id, isAnimating |-> newIsAnimating,
                      animationSpeed |-> newSpeed]}
             ELSE stopped
      /\ animationRef' = IF schedules THEN id ELSE 0
      /\ pending' =
           [NoPending EXCEPT
              !.currentSequence = <<ValidatedName("identity")>>,
              !.animationSpeed = <<DisplaySpeed>>,
              !.currentFrame = StartFrame(<<>>),
              !.isAnimating =
                 StartIsAnimating(StopIsAnimating(newIsAnimating),
                                  newIsAnimating)]
      /\ sequenceDataRef' = sequence
      /\ frameCountRef' = 0
      /\ droppedFramesRef' = 0
      /\ frameTimesRef' = <<>>
      /\ lastFrameTimeRef' = 0
      /\ startTimeRef' = 0
      /\ performanceStartRef' = 0
      /\ lastOp' = "displayRender"
      /\ lastTick' = NoTick
      /\ flightSpeed' = 0
      /\ advances' = 0
      /\ jumped' = FALSE
      /\ stoppedSince' = FALSE
      /\ batch' = 0
      /\ UNCHANGED <<morphSequences, mounted, now, displayFrame>>

\* a callback of the hook fires, before or after the render of the updates
\* queued so far
DisplayTick ==
  \E c \in rafQueue, g \in Gaps :
    animationLoopBody(c, g) /\ Batched /\ UNCHANGED <<reruns, displayFrame>>

\* the display is unmounted: the cleanups of the hook's effects and of the
\* mount effect
DisplayUnmount ==
  /\ mounted
  /\ lastOp # "init"
  /\ mounted' = FALSE
  /\ stopMorphingBody
  /\ lastOp' = "unmount"
  /\ stoppedSince' = TRUE
  /\ UNCHANGED <<morphSequences, stateVars, counterRefs, sequenceDataRef, now,
                 advances, jumped, batch, reruns, displayFrame>>

\* the display is mounted again, later: a new instance of the component,
\* whose hook starts from its initial state and refs on the same host
DisplayRemount ==
  /\ ~mounted
  /\ mounted' = TRUE
  /\ isAnimating' = FALSE
  /\ currentSequence' = "identity"
  /\ currentFrame' = 0
  /\ animationSpeed' = InitialSpeed
  /\ performanceMetrics' =
       [fps |-> 0, frameTime |-> 0, droppedFrames |-> 0, totalFrames |-> 0]
  /\ pending' = NoPending
  /\ animationRef' = 0
  /\ lastFrameTimeRef' = 0
  /\ frameCountRef' = 0
  /\ droppedFramesRef' = 0
  /\ sequenceDataRef' = <<>>
  /\ startTimeRef' = 0
  /\ performanceStartRef' = 0
  /\ frameTimesRef' = <<>>
  /\ lastOp' = "init"
  /\ lastTick' = NoTick
  /\ flightSpeed' = 0
  /\ advances' = 0
  /\ jumped' = FALSE
  /\ stoppedSince' = FALSE
  /\ batch' = 0
  /\ reruns' = 0
  /\ UNCHANGED <<morphSequences, rafQueue, now, displayFrame>>

NextDisplay ==
  \/ DisplayMount
  \/ DisplayRender
  \/ DisplayTick
  \/ DisplayUnmount
  \/ DisplayRemount

SpecDisplay == Init /\ [][NextDisplay]_vars

(***************************************************************************)
(* getMorphSequence called directly, on the store shipped with the site.   *)
(***************************************************************************)
InitLookup ==
  /\ HookInit /\ morphSequences = RealStore
  /\ NoLookups /\ NoRuns /\ NoThrottle /\ NoSite

Lookup ==
  \E name \in LookupNames :
    /\ Len(lookups) < MaxLookups
    /\ lookups' =
         Append(lookups, [name |-> name, result |-> getMorphSequence(name)])
    /\ UNCHANGED <<hookVars, uncaught, runs, intervals, throttleVars, siteVars>>

NextLookup == Lookup

SpecLookup == InitLookup /\ [][NextLookup]_vars

(***************************************************************************)
(* MorphingDisplay's sequence-switching interval, in two runs side by      *)
(* side.  Both runs start from the playback state the mount effect asks    *)
(* for, see the same frame advances and the same random draws, and differ  *)
(* only in the fps their telemetry snapshots report.                       *)
(***************************************************************************)
\* Object.keys(morphSequences), in order
availableSequences == <<"identity", "loading", "concepts">>

\* performanceMetrics.fps > 30 || performanceMetrics.fps === 0
GoodPerformance(fps) == fps > GoodFps \/ fps = 0

\* availableSequences.filter(seq => seq !== currentSequence)
OtherSequences(current) ==
  SelectSeq(availableSequences, LAMBDA seq : seq # current)

\* the interval callback: the name it passes to startMorphing, if any.
\* roll is the first Math.random() in tenths, pick the index the second one
\* selects.
sequenceSwitchInterval(fps, current, roll, pick) ==
  IF GoodPerformance(fps) /\ roll < SwitchChance
    THEN <<OtherSequences(current)[pick + 1]>>
    ELSE <<>>

\* the playback state once startMorphing(name, speed) is rendered on a
\* running scheduler
Started(run, name, speed) ==
  [run EXCEPT !.currentSequence = name, !.currentFrame = 0,
              !.animationSpeed = speed, !.isAnimating = TRUE]

\* the playback state of a run: all of it but the telemetry
Playback(run) ==
  [currentSequence |-> run.currentSequence, currentFrame |-> run.currentFrame,
   animationSpeed |-> run.animationSpeed, isAnimating |-> run.isAnimating]

InitTwoRuns ==
  /\ HookInit
  /\ morphSequences = RealStore
  /\ NoLookups
  /\ NoThrottle
  /\ NoSite
  /\ intervals = 0
  /\ \E f1, f2 \in FpsValues :
       runs = [r \in 1..2 |->
                 [currentSequence |-> "identity", currentFrame |-> 0,
                  animationSpeed |-> DisplaySpeed, isAnimating |-> TRUE,
                  fps |-> IF r = 1 THEN f1 ELSE f2]]

\* the interval fires in both runs, with the same random draws
IntervalFires ==
  \E roll \in Rolls, pick \in 0..(Len(availableSequences) - 2) :
    /\ intervals < MaxIntervals
    /\ intervals' = intervals + 1
    /\ runs' =
         [r \in 1..2 |->
            LET call == sequenceSwitchInterval(runs[r].fps,
                                               runs[r].currentSequence,
                                               roll, pick)
            IN  IF call = <<>> THEN runs[r]
                ELSE Started(runs[r], call[1], DisplaySpeed)]
    /\ UNCHANGED <<hookVars, uncaught, lookups, throttleVars, siteVars>>

\* the same callback advances the frame in both runs
FrameAdvances ==
  /\ runs' =
       [r \in 1..2 |->
          [runs[r] EXCEPT
             !.currentFrame =
                NextFrame(@, Len(getMorphSequence(runs[r].currentSequence)))]]
  /\ UNCHANGED <<hookVars, uncaught, lookups, intervals, throttleVars,
                 siteVars>>

\* the two runs measure their frame rates
Measures ==
  \E f1, f2 \in FpsValues :
    /\ runs' = [r \in 1..2 |->
                  [runs[r] EXCEPT !.fps = IF r = 1 THEN f1 ELSE f2]]
    /\ UNCHANGED <<hookVars, uncaught, lookups, intervals, throttleVars,
                 siteVars>>

NextTwoRuns ==
  \/ IntervalFires
  \/ FrameAdvances
  \/ Measures

SpecTwoRuns == InitTwoRuns /\ [][NextTwoRuns]_vars

(***************************************************************************)
(* throttle(func, limit, {leading, trailing}): the function it returns,    *)
(* the timer it sets and the host's clock.                                 *)
(***************************************************************************)
\* let lastRan;
Undefined == 0 - 1

InitThrottle ==
  /\ HookInit
  /\ morphSequences = RealStore
  /\ NoLookups
  /\ NoRuns
  /\ NoSite
  /\ limit \in Limits
  /\ leading \in BOOLEAN
  /\ trailing \in BOOLEAN
  /\ inThrottle = FALSE
  /\ lastFunc = <<>>
  /\ lastRan = Undefined
  /\ clock = 0
  /\ calls = <<>>
  /\ funcRuns = <<>>

\* limit - (Date.now() - lastRan) as setTimeout takes it: NaN (lastRan
\* undefined) and negative delays count as 0
\* (variant: the delay is always limit)
TimerDelayFull == limit
TimerDelay ==
  IF lastRan = Undefined THEN 0
  ELSE IF limit - (clock - lastRan) < 0 THEN 0
  ELSE limit - (clock - lastRan)

\* Date.now() - lastRan >= limit, false when lastRan is undefined (NaN)
WindowOver == lastRan # Undefined /\ clock - lastRan >= limit

\* func.apply(context, args): args are those of the call numbered k
Ran(k, sync) == Append(funcRuns, [time |-> clock, args |-> k, sync |-> sync])

\* one call of the throttled function
throttled ==
  LET k == Len(calls) + 1
  IN  /\ k <= MaxCalls
      /\ calls' = Append(calls, clock)
      /\ IF ~inThrottle
           THEN /\ IF leading
                     THEN /\ funcRuns' = Ran(k, TRUE)
                          /\ lastRan' = clock
                     ELSE UNCHANGED <<funcRuns, lastRan>>
                /\ inThrottle' = TRUE
                /\ UNCHANGED lastFunc
           ELSE /\ lastFunc' = <<[due |-> clock + TimerDelay, args |-> k]>>
                /\ UNCHANGED <<inThrottle, funcRuns, lastRan>>
      /\ UNCHANGED <<limit, leading, trailing, clock>>
      /\ UNCHANGED <<hookVars, uncaught, lookups, runs, intervals, siteVars>>

\* the timer held in lastFunc has reached its time
TimerDue == IF lastFunc = <<>> THEN FALSE ELSE lastFunc[1].due <= clock

\* the timer held in lastFunc fires
TimerFires ==
  /\ TimerDue
  /\ lastFunc' = <<>>
  /\ IF WindowOver
       THEN /\ funcRuns' =
                 IF trailing THEN Ran(lastFunc[1].args, FALSE) ELSE funcRuns
            /\ lastRan' = clock
       ELSE UNCHANGED <<funcRuns, lastRan>>
  /\ UNCHANGED <<limit, leading, trailing, inThrottle, clock, calls>>
  /\ UNCHANGED <<hookVars, uncaught, lookups, runs, intervals, siteVars>>

\* time passes, up to the time the next timer is due
ClockTicks ==
  /\ clock < MaxClock
  /\ ~TimerDue
  /\ clock' = clock + 1
  /\ UNCHANGED <<limit, leading, trailing, inThrottle, lastFunc, lastRan,
                 calls, funcRuns>>
  /\ UNCHANGED <<hookVars, uncaught, lookups, runs, intervals, siteVars>>

NextThrottle ==
  \/ throttled
  \/ TimerFires
  \/ ClockTicks

SpecThrottle == InitThrottle /\ [][NextThrottle]_vars

(***************************************************************************)
(* debounce(func, delay, immediate): the function it returns, the timer it *)
(* sets and the host's clock.                                              *)
(***************************************************************************)
InitDebounce ==
  /\ HookInit
  /\ morphSequences = RealStore
  /\ NoLookups
  /\ NoRuns
  /\ NoThrottle
  /\ NoHover
  /\ NoForm
  /\ NoEdge
  /\ NoDisplay
  /\ delay \in Delays
  /\ immediate \in BOOLEAN
  /\ timeoutId = <<>>
  /\ lastCallTime = 0

\* clearTimeout(timeoutId); timeoutId = setTimeout(later, delay): the time
\* the one timer is due
\* (variant: a timer that is waiting is kept)
DebounceDueKept(timer) == IF timer = <<>> THEN clock + delay ELSE timer[1].due
DebounceDue(timer) == clock + delay

\* one call of the debounced function
debounced ==
  LET k == Len(calls) + 1
      callNow == immediate /\ timeoutId = <<>>
  IN  /\ k <= MaxCalls
      /\ calls' = Append(calls, clock)
      /\ timeoutId' = <<[due |-> DebounceDue(timeoutId), args |-> k]>>
      /\ IF callNow
           THEN /\ lastCallTime' = clock
                /\ funcRuns' = Ran(k, TRUE)
           ELSE UNCHANGED <<lastCallTime, funcRuns>>
      /\ UNCHANGED <<delay, immediate, clock, hoverVars, formVars, edgeVars,
                     reruns>>
      /\ UNCHANGED <<limit, leading, trailing, inThrottle, lastFunc, lastRan>>
      /\ UNCHANGED <<hookVars, uncaught, lookups, runs, intervals>>

\* the timer held in timeoutId has reached its time
LaterDue == IF timeoutId = <<>> THEN FALSE ELSE timeoutId[1].due <= clock

\* the timer fires: later(), with the arguments of the call that set it
later ==
  /\ LaterDue
  /\ timeoutId' = <<>>
  /\ IF ~immediate
       THEN /\ lastCallTime' = clock
            /\ funcRuns' = Ran(timeoutId[1].args, FALSE)
       ELSE UNCHANGED <<lastCallTime, funcRuns>>
  /\ UNCHANGED <<delay, immediate, clock, calls, hoverVars, formVars,
                 edgeVars, reruns>>
  /\ UNCHANGED <<limit, leading, trailing, inThrottle, lastFunc, lastRan>>
  /\ UNCHANGED <<hookVars, uncaught, lookups, runs, intervals>>

\* time passes, up to the time the timer is due
ClockTicksDebounce ==
  /\ clock < MaxClock
  /\ ~LaterDue
  /\ clock' = clock + 1
  /\ UNCHANGED <<debounceVars, calls, funcRuns, hoverVars, formVars,
                 edgeVars, reruns>>
  /\ UNCHANGED <<limit, leading, trailing, inThrottle, lastFunc, lastRan>>
  /\ UNCHANGED <<hookVars, uncaught, lookups, runs, intervals>>

NextDebounce ==
  \/ debounced
  \/ later
  \/ ClockTicksDebounce

SpecDebounce == InitDebounce /\ [][NextDebounce]_vars

(***************************************************************************)
(* useHoverAnimation(hoverDelay).  No handler reads isHovered, so the       *)
(* render that follows a setIsHovered is taken with the step that calls it. *)
(***************************************************************************)
InitHover ==
  /\ HookInit
  /\ morphSequences = RealStore
  /\ NoLookups
  /\ NoRuns
  /\ NoThrottle
  /\ NoDebounce
  /\ NoForm
  /\ NoEdge
  /\ NoDisplay
  /\ hoverDelay \in HoverDelays
  /\ isHovered = FALSE
  /\ timeoutRef = 0
  /\ hoverMounted = TRUE
  /\ hoverTimers = {}
  /\ hoverLog = NoHoverLog

\* what no step of useHoverAnimation writes, the clock aside
hoverFrame == <<hookVars, uncaught, lookups, runs, intervals, limit, leading,
                trailing, inThrottle, lastFunc, lastRan, calls, funcRuns,
                debounceVars, formVars, edgeVars, reruns>>

\* handleMouseEnter's "if (timeoutRef.current) clearTimeout(...)"
\* (variant: the timer is left waiting)
EnterCancelNothing(timers, ref) == timers
EnterCancel(timers, ref) == CancelPending(timers, ref)

handleMouseEnter ==
  /\ hoverMounted
  /\ hoverTimers' = EnterCancel(hoverTimers, timeoutRef)
  /\ isHovered' = TRUE
  /\ hoverLog' = [NoHoverLog EXCEPT !.entered = TRUE]
  /\ UNCHANGED <<hoverDelay, timeoutRef, hoverMounted, clock, hoverFrame>>

handleMouseLeave ==
  LET cleared == CancelPending(hoverTimers, timeoutRef)
      id == FreshId(cleared, timeoutRef)
  IN  /\ hoverMounted
      /\ Len(hoverLog.leaves) < MaxLeaves
      /\ hoverTimers' = cleared \cup {[id |-> id, due |-> clock + hoverDelay]}
      /\ timeoutRef' = id
      /\ hoverLog' =
           [hoverLog EXCEPT
              !.leaves = Append(@, [time |-> clock, hovered |-> isHovered])]
      /\ UNCHANGED <<hoverDelay, isHovered, hoverMounted, clock, hoverFrame>>

\* a timer set by handleMouseLeave fires: setIsHovered(false)
LeaveTimerFires ==
  \E t \in hoverTimers :
    /\ t.due <= clock
    /\ hoverTimers' = hoverTimers \ {t}
    /\ isHovered' = FALSE
    /\ hoverLog' =
         [hoverLog EXCEPT !.unhoveredAt = IF isHovered THEN clock ELSE @]
    /\ UNCHANGED <<hoverDelay, timeoutRef, hoverMounted, clock, hoverFrame>>

\* the cleanup of the unmount effect
HoverUnmount ==
  /\ hoverMounted
  /\ hoverMounted' = FALSE
  /\ hoverTimers' = CancelPending(hoverTimers, timeoutRef)
  /\ UNCHANGED <<hoverDelay, isHovered, timeoutRef, hoverLog, clock,
                 hoverFrame>>

\* time passes, up to the time the next timer is due
ClockTicksHover ==
  /\ clock < MaxClock
  /\ \A t \in hoverTimers : t.due > clock
  /\ clock' = clock + 1
  /\ UNCHANGED <<hoverVars, hoverFrame>>

NextHover ==
  \/ handleMouseEnter
  \/ handleMouseLeave
  \/ LeaveTimerFires
  \/ HoverUnmount
  \/ ClockTicksHover

SpecHover == InitHover /\ [][NextHover]_vars

(***************************************************************************)
(* ContactForm (src/unnamed/part_011).  Every event of the form is a       *)
(* discrete event: React renders its updates before the next event, so a   *)
(* handler reads the state the handler before it left.  The submit button  *)
(* carries disabled={isSubmitting}, so the form cannot be submitted, by    *)
(* the button or by the Enter key, while a request is on its way.  The     *)
(* simulated request is a timer that always resolves: the catch branch of  *)
(* handleSubmit is never taken.                                            *)
(***************************************************************************)
InitForm ==
  /\ HookInit
  /\ morphSequences = RealStore
  /\ NoLookups
  /\ NoRuns
  /\ NoThrottle
  /\ NoDebounce
  /\ NoHover
  /\ NoForm
  /\ NoEdge
  /\ NoDisplay

\* \s, as far as the texts of the model go
Whitespace == {" "}

RECURSIVE TrimStart(_)
TrimStart(text) ==
  IF text # <<>> /\ Head(text) \in Whitespace THEN TrimStart(Tail(text))
  ELSE text

RECURSIVE TrimEnd(_)
TrimEnd(text) ==
  IF text # <<>> /\ text[Len(text)] \in Whitespace
    THEN TrimEnd(SubSeq(text, 1, Len(text) - 1))
    ELSE text

\* String.prototype.trim
Trim(text) == TrimEnd(TrimStart(text))

\* /^[^\s@]+@[^\s@]+\.[^\s@]+$/.test(email): one @ with text before it, and
\* after it a dot with text on both sides, no blank anywhere
validateEmail(email) ==
  \E at \in 1..Len(email), dot \in 1..Len(email) :
    /\ email[at] = "@"
    /\ email[dot] = "."
    /\ 1 < at
    /\ at + 1 < dot
    /\ dot < Len(email)
    /\ \A i \in 1..Len(email) :
         /\ email[i] \notin Whitespace
         /\ i # at => email[i] # "@"

\* newErrors of validateForm, as a set of <<field, message>>
FieldErrors(data) ==
  (IF Trim(data.name) = Empty THEN {<<"name", "Name is required">>} ELSE {})
  \cup
  (IF Trim(data.email) = Empty THEN {<<"email", "Email is required">>}
   ELSE IF ~validateEmail(data.email)
     THEN {<<"email", "Please enter a valid email address">>}
     ELSE {})
  \cup
  (IF data.interest = Empty
     THEN {<<"interest", "Please select your interest">>}
     ELSE {})
  \cup
  (IF Trim(data.message) = Empty
     THEN {<<"message", "Message is required">>}
     ELSE {})

\* newErrors as the object handed to setErrors
validateForm(data) ==
  [field \in {e[1] : e \in FieldErrors(data)} |->
     (CHOOSE e \in FieldErrors(data) : e[1] = field)[2]]

\* errors[name], truthy
HasError(field) == field \in DOMAIN errors /\ errors[field] # ""

\* the submit button: disabled={isSubmitting} and its label
SubmitDisabled == isSubmitting
SubmitLabel == IF isSubmitting THEN "Sending..." ELSE "Send Message"

\* what no step of the form writes
formFrame == <<hookVars, uncaught, lookups, runs, intervals, throttleVars,
               debounceVars, hoverVars, edgeVars, reruns>>

handleInputChange(field, value) ==
  /\ formData' = [formData EXCEPT ![field] = value]
  /\ errors' =
       IF HasError(field)
         THEN [f \in DOMAIN errors |-> IF f = field THEN "" ELSE errors[f]]
         ELSE errors
  /\ submitStatus' = IF submitStatus # "null" THEN "null" ELSE submitStatus
  /\ formOp' = "input"
  /\ UNCHANGED <<isSubmitting, requests, formFrame>>

\* handleSubmit up to its await
handleSubmit ==
  LET newErrors == validateForm(formData)
  IN  /\ ~SubmitDisabled
      /\ errors' = newErrors
      /\ IF DOMAIN newErrors # {}
           THEN /\ formOp' = "submitInvalid"
                /\ UNCHANGED <<isSubmitting, submitStatus, requests>>
           ELSE /\ isSubmitting' = TRUE
                /\ submitStatus' = "null"
                /\ requests' = requests + 1
                /\ formOp' = "submitValid"
      /\ UNCHANGED <<formData, formFrame>>

\* setFormData({name: '', ...}) after the request
\* (variant: the fields keep their texts)
FormAfterSuccessKept(data) == data
FormAfterSuccess(data) == EmptyForm

\* handleSubmit after its await: the timer of the simulated request fired
requestCompletes ==
  /\ requests > 0
  /\ requests' = requests - 1
  /\ submitStatus' = "success"
  /\ formData' = FormAfterSuccess(formData)
  /\ isSubmitting' = FALSE
  /\ formOp' = "completed"
  /\ UNCHANGED <<errors, formFrame>>

InputChange ==
  \E field \in Fields :
    \E value \in FieldValues[field] : handleInputChange(field, value)

NextForm ==
  \/ InputChange
  \/ handleSubmit
  \/ requestCompletes

SpecForm == InitForm /\ [][NextForm]_vars

(***************************************************************************)
(* The edge worker (src/src/worker.js, lines 1-181).  A request is handled *)
(* in one step.  caches.default follows the Cache API: match finds nothing *)
(* for a request whose method is not GET, and put rejects such a request   *)
(* with a TypeError and stores nothing.                                    *)
(***************************************************************************)
InitEdge ==
  /\ HookInit
  /\ morphSequences = RealStore
  /\ NoLookups
  /\ NoRuns
  /\ NoThrottle
  /\ NoDebounce
  /\ NoHover
  /\ NoForm
  /\ NoEdge
  /\ NoDisplay

\* env.ASSETS.fetch(request): the response of the origin
OriginResponse(status) ==
  [status |-> status, cacheControl |-> "origin", optimized |-> FALSE]

\* setCacheHeaders: the Cache-Control policy chosen from the path
setCacheHeaders(path) ==
  IF path = "/static/app.js" THEN "static"
  ELSE IF path = "/" THEN "html"
  ELSE "origin"

\* applyOptimizations: the cache, security and performance headers are set,
\* the status is kept
applyOptimizations(response, path) ==
  [status |-> response.status, cacheControl |-> setCacheHeaders(path),
   optimized |-> TRUE]

\* shouldCache(response, url)
shouldCache(response, nocache) ==
  IF response.status >= 400 THEN FALSE
  ELSE IF nocache THEN FALSE
  ELSE TRUE

\* cache.match(cacheKey)
CacheMatch(method, path, nocache) ==
  IF method # "GET" THEN {}
  ELSE {e \in edgeCache : e.path = path /\ e.nocache = nocache}

\* the cache after cache.put(cacheKey, response.clone())
CachePut(method, path, nocache, response) ==
  IF method # "GET" THEN edgeCache
  ELSE {e \in edgeCache : ~(e.path = path /\ e.nocache = nocache)}
         \cup {[path |-> path, nocache |-> nocache, response |-> response]}

\* what no step of the edge worker writes
edgeFrame == <<hookVars, uncaught, lookups, runs, intervals, throttleVars,
               debounceVars, hoverVars, formVars, reruns>>

\* fetch(request, env, ctx), the origin answering with the given status on a
\* cache miss
fetch(method, path, nocache, status) ==
  LET matched == CacheMatch(method, path, nocache)
      response == applyOptimizations(OriginResponse(status), path)
      put == shouldCache(response, nocache)
  IN  /\ Len(edgeLog) < MaxRequests
      /\ IF matched # {}
           THEN /\ edgeLog' =
                     Append(edgeLog,
                            [method |-> method, path |-> path,
                             nocache |-> nocache, hit |-> TRUE,
                             response |-> (CHOOSE e \in matched : TRUE).response,
                             put |-> FALSE, rejected |-> FALSE])
                /\ UNCHANGED edgeCache
           ELSE /\ edgeLog' =
                     Append(edgeLog,
                            [method |-> method, path |-> path,
                             nocache |-> nocache, hit |-> FALSE,
                             response |-> response, put |-> put,
                             rejected |-> put /\ method # "GET"])
                /\ edgeCache' =
                     IF put THEN CachePut(method, path, nocache, response)
                     ELSE edgeCache
      /\ UNCHANGED edgeFrame

Fetch ==
  \E method \in Methods, path \in Paths, nocache \in BOOLEAN,
     status \in Statuses :
    fetch(method, path, nocache, status)

NextEdge == Fetch

SpecEdge == InitEdge /\ [][NextEdge]_vars

TypeOK ==
  /\ isAnimating \in BOOLEAN
  /\ currentFrame \in Nat
  /\ animationRef \in Nat
  /\ frameCountRef \in Nat
  /\ droppedFramesRef \in Nat
  /\ now \in 0..MaxTime

(***************************************************************************)
(* Properties of the scheduler.  The frame index, the running flag, the    *)
(* interval, the sequence and the telemetry snapshot are read through the  *)
(* queue of updates (Resolved...): the value the hook holds once the       *)
(* updates already issued are rendered.                                    *)
(***************************************************************************)

\* C1: after stop() (or a stopping toggle, or unmount) and until the next
\* start() or resuming toggle(), no callback of the scheduler is outstanding,
\* so none can fire, whatever renders and other calls follow; and no step
\* other than an accepted jumpToFrame changes the frame index or the
\* telemetry snapshot.
C1_StopLeavesNoCallback ==
  /\ [](stoppedSince => rafQueue = {})
  /\ [][(stoppedSince /\ stoppedSince' /\ lastOp' # "jump") =>
          /\ ResolvedFrame' = ResolvedFrame
          /\ ResolvedMetrics' = ResolvedMetrics]_vars

\* C1 witness: stop() was just called on a running scheduler whose last
\* callback advanced a frame that is not rendered yet; the callback that was
\* outstanding is gone.
C1_Witness ==
  /\ lastOp = "stop"
  /\ isAnimating
  /\ pending.updaters = 1
  /\ animationRef = 0
  /\ rafQueue = {}

\* C2: the frame index is a valid index of the active sequence: the rendered
\* index with the rendered sequence name, and the index the queued updates
\* resolve to with the sequence loaded in sequenceDataRef.
C2_FrameIndexInRange ==
  /\ Len(sequenceDataRef) > 0 =>
       ResolvedFrame \in 0..(Len(sequenceDataRef) - 1)
  /\ Len(getMorphSequence(currentSequence)) > 0 =>
       currentFrame \in 0..(Len(getMorphSequence(currentSequence)) - 1)

\* C2 witness: start() has just switched to a shorter sequence while the
\* rendered index is past the end of the new one; the index resolves to 0.
C2_Witness ==
  /\ lastOp \in StartOps
  /\ Len(sequenceDataRef) < Len(getMorphSequence(currentSequence))
  /\ currentFrame >= Len(sequenceDataRef)
  /\ ResolvedFrame = 0

\* C3 (as claimed): right after a start() that resolved a non-empty sequence
\* the scheduler is Running on that sequence at frame 0.
C3_StartEndsRunning ==
  lastOp \in StartOps =>
    /\ ResolvedIsAnimating
    /\ ResolvedFrame = 0
    /\ getMorphSequence(ResolvedSequence) = sequenceDataRef

C5_Wraparound ==
  (Len(sequenceDataRef) > 0 /\ ~jumped) =>
    ResolvedFrame = advances % Len(sequenceDataRef)

\* C5 witness: the advances have wrapped around a sequence of several frames
\* and are rendered.
C5_Witness ==
  /\ Len(sequenceDataRef) > 1
  /\ advances >= Len(sequenceDataRef)
  /\ ~jumped
  /\ pending = NoPending
  /\ currentFrame = advances % Len(sequenceDataRef)

\* C6: a start() leaves the frame index at 0, also when it is called on a
\* running scheduler that had advanced through another sequence; and a
\* callback that fires afterwards without advancing leaves it at 0.
C6_SwitchResetsPosition ==
  /\ lastOp \in StartOps => ResolvedFrame = 0
  /\ (lastTick.ran /\ advances = 0 /\ ~jumped /\ Len(sequenceDataRef) > 0) =>
       ResolvedFrame = 0

\* C6 witness: start() was just called, without a stop(), on a scheduler
\* that is running another sequence at a frame past 0, with its callback
\* outstanding.
C6_Witness ==
  /\ lastOp = "startSwitch"
  /\ isAnimating
  /\ pending.isAnimating = <<>>
  /\ rafQueue # {}
  /\ currentFrame > 0
  /\ ResolvedSequence # currentSequence
  /\ ResolvedFrame = 0

\* C7 (as claimed): after a callback the snapshot's totalFrames is the number
\* of frame advances since the last start().
C7_TotalFramesCountsAdvances ==
  lastTick.ran => ResolvedMetrics.totalFrames = advances

\* C8 (as claimed): right after a start() the snapshot reports no dropped
\* frame and no frame advanced.
C8_StartResetsSnapshot ==
  lastOp \in StartOps =>
    /\ ResolvedMetrics.droppedFrames = 0
    /\ ResolvedMetrics.totalFrames = 0

\* C9: the dropped-frame counter decreases in no step but a start(); stop(),
\* toggle() and changeSpeed() leave it as it is.
C9_DroppedCounterMonotonic ==
  /\ [][lastOp' \notin StartOps => droppedFramesRef' >= droppedFramesRef]_vars
  /\ [][lastOp' \in StopOps \cup {"toggleStop", "toggleResume", "changeSpeed"} =>
          droppedFramesRef' = droppedFramesRef]_vars

\* C9 witness: a scheduler that has counted a dropped frame was paused and
\* has just been resumed by toggle(); the count is still there.
C9_Witness ==
  /\ lastOp = "toggleResume"
  /\ droppedFramesRef > 0
  /\ ~isAnimating
  /\ ResolvedIsAnimating

\* C10 (as claimed): a callback that follows another one of the same run
\* adds one to the dropped-frame counter when its gap exceeds 20 ms, and
\* nothing otherwise.
C10_EveryLateCallbackCounted ==
  (lastTick.ran /\ ~lastTick.first) =>
    lastTick.counted = (IF lastTick.gap > DroppedFrameThreshold THEN 1 ELSE 0)

\* C11 (as claimed): toggle() stops a Running scheduler, sets a Stopped one
\* with a sequence loaded Running on the sequence and interval it has, and
\* changes nothing on a Stopped one with no sequence loaded.
C11_ToggleFlipsRunningFlag ==
  [][lastOp' \in {"toggleStop", "toggleResume", "toggleNoop"} =>
       /\ ResolvedSequence' = ResolvedSequence
       /\ ResolvedSpeed' = ResolvedSpeed
       /\ IF ResolvedIsAnimating
            THEN ~ResolvedIsAnimating'
            ELSE IF Len(sequenceDataRef) > 0
              THEN ResolvedIsAnimating'
              ELSE /\ ~ResolvedIsAnimating'
                   /\ pending' = pending
                   /\ rafQueue' = rafQueue]_vars

\* C12: a stop() on a scheduler that has been stopped, and neither started
\* nor resumed since, changes nothing: the running flag stays false, the frame
\* index, the interval, the sequence, the telemetry snapshot and its counters
\* are the same, and no callback is outstanding before or after.
C12_StopIdempotent ==
  [][(stoppedSince /\ lastOp' \in StopOps) =>
       /\ lastOp' = "stopAgain"
       /\ ~ResolvedIsAnimating /\ ~ResolvedIsAnimating'
       /\ ResolvedFrame' = ResolvedFrame
       /\ ResolvedSpeed' = ResolvedSpeed
       /\ ResolvedSequence' = ResolvedSequence
       /\ ResolvedMetrics' = ResolvedMetrics
       /\ pending'.updaters = pending.updaters
       /\ counterRefs' = counterRefs
       /\ timingRefs' = timingRefs
       /\ sequenceDataRef' = sequenceDataRef
       /\ animationRef' = animationRef
       /\ rafQueue = {} /\ rafQueue' = {}]_vars

\* C12 witness: stop() was called twice in one batch on a scheduler that the
\* last render shows running after at least one advance.
C12_Witness ==
  /\ lastOp = "stopAgain"
  /\ isAnimating
  /\ advances > 0
  /\ batch = MaxBatch
  /\ rafQueue = {}

\* C13: with N frames loaded (N = 0 when no sequence is loaded),
\* jumpToFrame(i) makes i the frame index when 0 <= i < N and leaves the
\* running flag, the interval, the sequence, the telemetry and the
\* outstanding callback alone; for any other i it changes nothing at all.
C13_JumpSetsOrRejects ==
  [][\A i \in JumpIndices :
       (lastOp' \in {"jump", "jumpRejected"} /\ jumpToFrame(i)) =>
         /\ ResolvedIsAnimating' = ResolvedIsAnimating
         /\ ResolvedSpeed' = ResolvedSpeed
         /\ ResolvedSequence' = ResolvedSequence
         /\ ResolvedMetrics' = ResolvedMetrics
         /\ stateVars' = stateVars
         /\ counterRefs' = counterRefs
         /\ timingRefs' = timingRefs
         /\ sequenceDataRef' = sequenceDataRef
         /\ rafQueue' = rafQueue
         /\ animationRef' = animationRef
         /\ IF 0 <= i /\ i < Len(sequenceDataRef)
              THEN ResolvedFrame' = i
              ELSE pending' = pending]_vars

\* C13 witness: jumpToFrame(2) was just accepted on a running scheduler that
\* shows another frame, its callback still outstanding.
C13_Witness ==
  /\ lastOp = "jump"
  /\ isAnimating
  /\ rafQueue # {}
  /\ currentFrame # 2
  /\ ResolvedFrame = 2

\* C14: changeSpeed(s) with s <= 0 changes nothing at all; with s > 0 it
\* makes s the interval and leaves the running flag, the sequence, the frame
\* index, the telemetry and the outstanding callback alone.
C14_ChangeSpeedSetsOrRejects ==
  [][\A s \in NewSpeeds :
       (lastOp' \in {"changeSpeed", "changeSpeedRejected"} /\ changeSpeed(s))
       =>
         /\ ResolvedIsAnimating' = ResolvedIsAnimating
         /\ ResolvedSequence' = ResolvedSequence
         /\ ResolvedFrame' = ResolvedFrame
         /\ ResolvedMetrics' = ResolvedMetrics
         /\ stateVars' = stateVars
         /\ counterRefs' = counterRefs
         /\ timingRefs' = timingRefs
         /\ sequenceDataRef' = sequenceDataRef
         /\ rafQueue' = rafQueue
         /\ animationRef' = animationRef
         /\ IF s <= 0
              THEN pending' = pending
              ELSE ResolvedSpeed' = s]_vars

\* C14 witness: changeSpeed was just accepted on a running scheduler that
\* has advanced and shows another interval, its callback still outstanding.
C14_Witness ==
  /\ lastOp = "changeSpeed"
  /\ isAnimating
  /\ rafQueue # {}
  /\ advances > 0
  /\ ResolvedSpeed # animationSpeed
  /\ ResolvedSpeed \in NewSpeeds

\* C15: start() with a name that is not registered does what start() with
\* "identity" does: it queues the same updates, loads the identity frames and
\* resets the same counters; the sequence reported after the render is
\* "identity", and a scheduler that was Stopped with no update waiting is
\* Running.
C15_UnknownNameStartsIdentity ==
  [][\A s \in Speeds :
       (lastOp' = "startFallback" /\ startMorphing("unknown", s)) =>
         /\ pending' = StartPending("identity", s)
         /\ ResolvedSequence' = "identity"
         /\ ResolvedSpeed' = s
         /\ ResolvedFrame' = 0
         /\ sequenceDataRef' = morphSequences.identity
         /\ Len(sequenceDataRef') > 0
         /\ frameCountRef' = 0 /\ droppedFramesRef' = 0
         /\ frameTimesRef' = <<>>
         /\ (~isAnimating /\ pending.isAnimating = <<>>) =>
              ResolvedIsAnimating']_vars

\* C15 witness: start() was just called with an unregistered name on a
\* stopped scheduler that shows another sequence; identity is loaded and the
\* scheduler is Running once rendered.
C15_Witness ==
  /\ lastOp = "startFallback"
  /\ ~isAnimating
  /\ currentSequence # "identity"
  /\ ResolvedSequence = "identity"
  /\ sequenceDataRef = morphSequences.identity
  /\ ResolvedIsAnimating

\* C16: a start() whose sequence resolves to no frames changes nothing: the
\* running flag stays as it is (a Stopped scheduler stays Stopped), no update
\* is queued, no callback is scheduled and the frames loaded before stay
\* loaded.  No callback is ever outstanding, and no frame ever advanced, with
\* no frames loaded.
C16_EmptySequenceStaysStopped ==
  /\ [][\A n \in Names, s \in Speeds :
          (/\ lastOp' \in StartOps \cup {"startRejected"}
           /\ Len(getMorphSequence(ValidatedName(n))) = 0
           /\ startMorphing(n, s))
            => /\ pending' = pending
               /\ ResolvedIsAnimating' = ResolvedIsAnimating
               /\ stateVars' = stateVars
               /\ rafQueue' = rafQueue
               /\ animationRef' = animationRef
               /\ sequenceDataRef' = sequenceDataRef
               /\ counterRefs' = counterRefs]_vars
  /\ [](rafQueue # {} => Len(sequenceDataRef) > 0)
  /\ [](lastTick.advanced => Len(sequenceDataRef) > 0)

\* C16 witness: start() was just called with the name of a registered
\* sequence that has no frames, on a Stopped scheduler with nothing loaded;
\* it is still Stopped, with no callback and no update waiting.
C16_Witness ==
  /\ lastOp = "startRejected"
  /\ Len(morphSequences.concepts) = 0
  /\ ~isAnimating
  /\ pending = NoPending
  /\ sequenceDataRef = <<>>
  /\ rafQueue = {}

\* C17 (as claimed): on a host with no requestAnimationFrame no error of the
\* scheduler goes unhandled.
C17_NoUnhandledError == ~uncaught

\* C18 (as claimed): every call of getMorphSequence returns a list of at
\* least one frame: the registered frames of a registered name, the identity
\* frames of any other name.
C18_LookupReturnsFrames ==
  \A i \in 1..Len(lookups) :
    LET name == lookups[i].name
        result == lookups[i].result
    IN  /\ Len(result) > 0
        /\ \A k \in 1..Len(result) : IsFrame(result[k])
        /\ result = IF name \in getSequenceNames
                      THEN morphSequences[name]
                      ELSE morphSequences.identity

\* C19 (as claimed): two runs that see the same interval firings, random
\* draws and frame advances, and differ only in the telemetry they measure,
\* are in the same playback state.
C19_TelemetryNotAnInput == Playback(runs[1]) = Playback(runs[2])

\* C20 (as claimed): with {leading: false} and trailing left on, the first
\* call does not run func itself; while it is the only call, func has not
\* run before limit has elapsed since the call, and has run exactly once, at
\* that time, from then on.
C20_LeadingFalseRunsOnTrailingEdge ==
  (~leading /\ trailing /\ Len(calls) >= 1) =>
    /\ \A i \in 1..Len(funcRuns) :
         ~(funcRuns[i].sync /\ funcRuns[i].args = 1)
    /\ (Len(calls) = 1 /\ clock < calls[1] + limit) => funcRuns = <<>>
    /\ (Len(calls) = 1 /\ clock >= calls[1] + limit) =>
         /\ Len(funcRuns) = 1
         /\ funcRuns[1].time = calls[1] + limit

\* C21: with the default options the first call runs func at once, with its
\* own arguments.  When calls follow a run before limit has elapsed since it,
\* func runs exactly once more for all of them, when limit has elapsed since
\* that run, with the arguments of the last of them.  Two runs of func are
\* never less than limit apart.
C21_ThrottleOncePerWindow ==
  (leading /\ trailing) =>
    /\ Len(calls) >= 1 =>
         /\ Len(funcRuns) >= 1
         /\ funcRuns[1] = [time |-> calls[1], args |-> 1, sync |-> TRUE]
    /\ \A i \in 1..Len(funcRuns) :
         LET windowEnd == funcRuns[i].time + limit
             inWindow == {k \in 1..Len(calls) :
                            k > funcRuns[i].args /\ calls[k] < windowEnd}
             runsInWindow == {j \in 1..Len(funcRuns) :
                                j > i /\ funcRuns[j].time <= windowEnd}
         IN  (inWindow # {} /\ clock > windowEnd) =>
               /\ runsInWindow = {i + 1}
               /\ funcRuns[i + 1].time = windowEnd
               /\ ~funcRuns[i + 1].sync
               /\ funcRuns[i + 1].args >= CHOOSE k \in inWindow :
                                             \A m \in inWindow : m <= k
    /\ \A i, j \in 1..Len(funcRuns) :
         i < j => funcRuns[j].time - funcRuns[i].time >= limit

\* C21 witness: three calls inside one window, the first one ran at once and
\* the other two produced one run at the end of the window, with the
\* arguments of the last call.
C21_Witness ==
  /\ leading /\ trailing
  /\ Len(calls) = 3
  /\ calls[3] < calls[1] + limit
  /\ calls[2] > calls[1]
  /\ Len(funcRuns) = 2
  /\ funcRuns[2] = [time |-> calls[1] + limit, args |-> 3, sync |-> FALSE]
  /\ clock > calls[1] + limit

\* C22: without the immediate flag func never runs inside a call.  A call
\* that is followed by another one less than delay later produces no run; a
\* call that is followed by none until more than delay later produces exactly
\* one run, delay after it, with its own arguments.  So a burst of calls
\* produces one run, delay after its last call, with that call's arguments.
C22_DebounceRunsOnceAfterBurst ==
  ~immediate =>
    /\ \A i \in 1..Len(funcRuns) : ~funcRuns[i].sync
    /\ \A k \in 1..Len(calls) :
         LET runsOf == {i \in 1..Len(funcRuns) : funcRuns[i].args = k}
             followed == k < Len(calls) /\ calls[k + 1] < calls[k] + delay
             last == k = Len(calls) \/ calls[k + 1] > calls[k] + delay
         IN  /\ followed => runsOf = {}
             /\ clock < calls[k] + delay => runsOf = {}
             /\ (last /\ clock > calls[k] + delay) =>
                  /\ Cardinality(runsOf) = 1
                  /\ \A i \in runsOf : funcRuns[i].time = calls[k] + delay
    /\ \A i \in 1..Len(funcRuns) : funcRuns[i].args \in 1..Len(calls)

\* C22 witness: a burst of three calls, not all at the same time, each less
\* than delay after the one before, has produced its one run, with the
\* arguments of the third call.
C22_Witness ==
  /\ delay > 0
  /\ ~immediate
  /\ Len(calls) = 3
  /\ calls[1] < calls[2]
  /\ calls[2] < calls[3]
  /\ calls[2] < calls[1] + delay
  /\ calls[3] < calls[2] + delay
  /\ funcRuns = <<[time |-> calls[3] + delay, args |-> 3, sync |-> FALSE]>>

\* C23 (as claimed): handleMouseEnter leaves isHovered true with no leave
\* timer waiting, and it stays so until the next handleMouseLeave; every
\* handleMouseLeave made while hovered, with no handleMouseEnter after it,
\* leaves isHovered true until hoverDelay has elapsed since it and false from
\* exactly then on; at most one leave timer is waiting.
C23_EveryLeaveUnhoversAfterDelay ==
  hoverMounted =>
    /\ (hoverLog.entered /\ hoverLog.leaves = <<>>) =>
         isHovered /\ hoverTimers = {}
    /\ \A k \in 1..Len(hoverLog.leaves) :
         LET leave == hoverLog.leaves[k]
         IN  leave.hovered =>
               /\ clock < leave.time + hoverDelay => isHovered
               /\ clock > leave.time + hoverDelay =>
                    /\ ~isHovered
                    /\ hoverLog.unhoveredAt = leave.time + hoverDelay
    /\ Cardinality(hoverTimers) <= 1

\* C23 (amended): the same, but the delay counts from the last
\* handleMouseLeave: a handleMouseLeave that is followed by a later one
\* before hoverDelay has elapsed does not end the hover hoverDelay after
\* itself, the hover lasts on.
C23_LastLeaveUnhoversAfterDelay ==
  hoverMounted =>
    /\ (hoverLog.entered /\ hoverLog.leaves = <<>>) =>
         isHovered /\ hoverTimers = {}
    /\ \A k \in 1..Len(hoverLog.leaves) :
         LET leave == hoverLog.leaves[k]
             n == Len(hoverLog.leaves)
             followed ==
               /\ k < n
               /\ hoverLog.leaves[k + 1].time > leave.time
               /\ hoverLog.leaves[k + 1].time < leave.time + hoverDelay
             last ==
               k = n \/ hoverLog.leaves[k + 1].time > leave.time + hoverDelay
         IN  leave.hovered =>
               /\ clock < leave.time + hoverDelay => isHovered
               /\ (followed /\ clock <= leave.time + hoverDelay) => isHovered
               /\ followed => hoverLog.unhoveredAt # leave.time + hoverDelay
               /\ (last /\ clock > leave.time + hoverDelay) =>
                    /\ ~isHovered
                    /\ hoverLog.unhoveredAt = leave.time + hoverDelay
    /\ Cardinality(hoverTimers) <= 1

\* C23 witness: after handleMouseEnter, handleMouseLeave was called twice at
\* different times less than hoverDelay apart; the hover has ended,
\* hoverDelay after the second call.
C23_Witness ==
  /\ hoverMounted
  /\ Len(hoverLog.leaves) = 2
  /\ hoverLog.leaves[1].hovered
  /\ hoverLog.leaves[1].time < hoverLog.leaves[2].time
  /\ hoverLog.leaves[2].time < hoverLog.leaves[1].time + hoverDelay
  /\ ~isHovered
  /\ hoverLog.unhoveredAt = hoverLog.leaves[2].time + hoverDelay
  /\ hoverTimers = {}

\* C24: a submit of a form in which a field fails validation (name or
\* message blank, no interest chosen, email blank or not of the form
\* x@y.z) records the message of every failing field and leaves isSubmitting
\* false, with no request started.  A submit of a valid form sets
\* isSubmitting, which disables the button and labels it "Sending...", and it
\* stays set exactly as long as the request is on its way.  When the request
\* completes isSubmitting is false, the status is "success" and the four
\* fields are empty.
C24_SubmitValidatesThenSends ==
  /\ [][formOp' \in {"submitInvalid", "submitValid"} =>
          LET nameFails == formData.name \in {Empty, Blank}
              emailFails == formData.email # Address
              interestFails == formData.interest = Empty
              messageFails == formData.message \in {Empty, Blank}
              failing == {f \in Fields :
                            \/ f = "name" /\ nameFails
                            \/ f = "email" /\ emailFails
                            \/ f = "interest" /\ interestFails
                            \/ f = "message" /\ messageFails}
          IN  /\ DOMAIN errors' = failing
              /\ \A f \in failing : errors'[f] # ""
              /\ formData' = formData
              /\ IF failing # {}
                   THEN /\ formOp' = "submitInvalid"
                        /\ ~isSubmitting'
                        /\ requests' = 0
                        /\ submitStatus' = submitStatus
                   ELSE /\ formOp' = "submitValid"
                        /\ isSubmitting'
                        /\ SubmitDisabled'
                        /\ SubmitLabel' = "Sending..."
                        /\ requests' = 1]_vars
  /\ [](isSubmitting <=> requests > 0)
  /\ [](requests <= 1)
  /\ [][formOp' = "completed" =>
          /\ isSubmitting
          /\ ~isSubmitting'
          /\ ~SubmitDisabled'
          /\ submitStatus' = "success"
          /\ formData' = EmptyForm]_vars

\* C24 witness: the request of a valid form has just completed: the fields
\* are empty again, the status is "success" and the button is enabled.
C24_Witness ==
  /\ formOp = "completed"
  /\ formData = EmptyForm
  /\ submitStatus = "success"
  /\ ~isSubmitting
  /\ DOMAIN errors = {}

\* C25 (as claimed): every callback of a running scheduler adds one sample,
\* its gap to the callback before it, to the window of frame times, whether
\* or not it advances the frame.
C25_EveryCallbackSampled ==
  [][lastOp' \in {"tick", "tickAdvance"} =>
       /\ Len(frameTimesRef') = Len(frameTimesRef) + 1
       /\ frameTimesRef'[Len(frameTimesRef')] =
            IF lastTick'.first THEN 0 ELSE lastTick'.gap]_vars

\* C26: at most one callback of the scheduler is outstanding in every
\* reachable state, and it is the one animationRef names; a step that
\* schedules a callback leaves none of the callbacks that were outstanding
\* before it: each has run or was cancelled.
C26_OneCallbackOutstanding ==
  /\ [](Cardinality(rafQueue) <= 1)
  /\ [](\A c \in rafQueue : c.id = animationRef)
  /\ [][rafQueue' \ rafQueue # {} => rafQueue' \cap rafQueue = {}]_vars

\* C26 witness: the render of a changeSpeed on a running scheduler that has
\* advanced has just re-registered the effect: the one callback outstanding
\* is the new one, which captured the new interval.
C26_Witness ==
  /\ lastOp = "render"
  /\ isAnimating
  /\ advances > 0
  /\ animationSpeed \in NewSpeeds \ Speeds
  /\ rafQueue =
       {[id |-> animationRef, isAnimating |-> TRUE,
         animationSpeed |-> animationSpeed]}

\* C27 (as claimed): for a request answered from the origin, the worker
\* calls cache.put exactly when the status is below 400, the URL carries no
\* nocache parameter and the method is not POST, and what it puts is the
\* response after the optimizations; no entry of the cache has a status of
\* 400 or more or a URL with the nocache parameter.
C27_CachesAllButErrorsNocachePost ==
  /\ \A i \in 1..Len(edgeLog) :
       LET r == edgeLog[i]
       IN  ~r.hit =>
             /\ r.put <=>
                  (r.response.status < 400 /\ ~r.nocache /\ r.method # "POST")
             /\ r.response.optimized
  /\ \A e \in edgeCache :
       /\ e.response.status < 400
       /\ ~e.nocache
       /\ e.response.optimized

\* C28 (as claimed): while the display stays mounted, a render that shows the
\* scheduler Running is never followed by one that shows it Stopped.
C28_DisplayStaysRunning ==
  [][(isAnimating /\ mounted') => isAnimating']_vars

\* C29 (as claimed): the interval is strictly positive in every reachable
\* state, as rendered and as the queued updates leave it, so no callback of a
\* running scheduler compares the elapsed time with an interval of 0 or less.
C29_IntervalPositive ==
  /\ animationSpeed > 0
  /\ ResolvedSpeed > 0
  /\ \A c \in rafQueue : c.animationSpeed > 0
  /\ lastTick.ran => lastTick.speed > 0

\* C30: a stop() or toggle() step, pausing or resuming, leaves the sequence,
\* the frame index, the interval, the dropped-frame counter, the total-frame
\* counter and the telemetry as they are.  A resuming toggle() finds the
\* timing refs reset, and a render leaves them so, so the first callback
\* after it starts its timing afresh: the time elapsed toward the next
\* advance is 0 and its gap counts no dropped frame.
C30_PauseResumeKeepsPosition ==
  /\ [][lastOp' \in StopOps \cup {"toggleStop", "toggleResume", "toggleNoop"}
          => /\ ResolvedSequence' = ResolvedSequence
             /\ ResolvedFrame' = ResolvedFrame
             /\ ResolvedSpeed' = ResolvedSpeed
             /\ ResolvedMetrics' = ResolvedMetrics
             /\ droppedFramesRef' = droppedFramesRef
             /\ frameCountRef' + pending'.updaters =
                  frameCountRef + pending.updaters
             /\ frameTimesRef' = frameTimesRef
             /\ sequenceDataRef' = sequenceDataRef]_vars
  /\ [](lastOp = "toggleResume" => timingRefs = <<0, 0, 0>>)
  /\ [][lastOp' = "render" => timingRefs' = timingRefs]_vars
  /\ [][(lastOp' \in {"tick", "tickAdvance"} /\ performanceStartRef = 0) =>
          /\ lastTick'.first
          /\ lastTick'.elapsed = 0
          /\ lastTick'.counted = 0
          /\ droppedFramesRef' = droppedFramesRef]_vars

\* C30 witness: the first callback after a pause and a resume, more than
\* 20 ms after the callback before the pause: the frames advanced before the
\* pause are still counted, and the callback neither advanced the frame nor
\* counted a dropped one.
C30_Witness ==
  /\ lastTick.ran
  /\ lastTick.first
  /\ advances > 0
  /\ ~lastTick.advanced
  /\ lastTick.gap > DroppedFrameThreshold
  /\ lastTick.counted = 0
  /\ lastTick.elapsed = 0

====
